---- MODULE Spec2Model ----
(***************************************************************************)
(* A model of the ledger of CSC2218_Group_1_Project_2025.                  *)
(*                                                                         *)
(* The repository holds several independent wirings of the same ledger:    *)
(*   "main"   - the FastAPI endpoints of main.py over two module-level     *)
(*              dictionaries (accounts, transactions);                     *)
(*   "entity" - the Account entity called directly, and                    *)
(*              AccountRepository.transfer, which delegates to it;         *)
(*   "domain" - the domain TransactionService and TransferService over     *)
(*              the list-backed domain repositories;                       *)
(*   "limits" - AccountService with a DailyMonthlyLimit constraint;        *)
(*   "app"    - the application services over the dict-backed              *)
(*              infrastructure repositories;                               *)
(*   "failing" - the two transfer services over repositories one of whose  *)
(*              writes raises (the repositories are injected);             *)
(*   "interest" - InterestService over the infrastructure repository;      *)
(*   "threads" - the application services called from two threads at once; *)
(*   "creation" - AccountCreationService over the infrastructure account   *)
(*              repository;                                                *)
(*   "scenario" - the end-to-end sequence of calls against main.py;        *)
(*   "statement" - StatementService beside FundTransferService;            *)
(*   "figures" - the starting-balance arithmetic of StatementService on    *)
(*              the figures of a period.                                   *)
(* A run of the model is a run of one of them (variable layer), all calls  *)
(* falling on one calendar day.                                            *)
(*                                                                         *)
(* Amounts are Python floats in the source; the model uses small integers, *)
(* on which float arithmetic is exact.                                     *)
(***************************************************************************)
EXTENDS Integers, Sequences, FiniteSets, TLC

VARIABLES
    layer,         \* which wiring this run exercises
    balance,       \* Account.balance of every Account object
    acctTx,        \* Account.transactions of every Account object
    txRepo,        \* the transaction repository (domain: list, infrastructure: dict in insertion order)
    accounts,      \* main.py: accounts[account_id] = balance
    transactions,  \* main.py: transactions[account_id] = list of Transaction
    last,          \* the most recent call: its name, arguments and outcome
    accrued,       \* Account.accrued_interest of every Account object
    thr,           \* the calls in progress on the caller's threads
    store,         \* infrastructure AccountRepository._accounts of the account-creation wiring
    given          \* the figures a statement is worked out from in the worked example

vars == <<layer, balance, acctTx, txRepo, accounts, transactions, last, accrued, thr,
         store, given>>

(***************************************************************************)
(* Bounds of the model.                                                    *)
(***************************************************************************)
MaxBalance == 4    \* no call is issued that would lift a balance above this
MaxRecords == 4    \* no call is issued that would leave more records than this

\* The amounts callers request: negative, zero, and two positive ones.
Amounts == {-1, 0, 1, 2}

\* The amounts asked of AccountService.withdraw: the above, and one that is
\* over the daily limit.
WithdrawalRequests == Amounts \cup {3}

None == "None"

\* Account objects. a1 and a2 are saved in the account repository; ghost is an
\* Account object (and an id) the repository does not hold.
Stored == {"a1", "a2"}
Ghost == "ghost"
Objects == Stored \cup {Ghost}

\* The balances the Account objects are constructed with.
OpeningBalance(a) == IF a = "a1" THEN 2 ELSE 1

\* main.py account ids (uuid4 strings) and the initial deposits requested.
MainIds == {"m1", "m2"}
InitialDeposits == {-1, 2}

\* The account types callers ask for: the two real ones, one in lower case and
\* one that does not exist.
RequestedTypes == {"CHECKING", "SAVINGS", "checking", "GOLD"}

\* The wirings that run the endpoints of main.py.
MainWirings == {"main", "scenario"}

\* The wirings that run FundTransferService: on its own, and beside
\* StatementService (transfers are the calls that reach the transaction log).
AppWirings == {"app", "statement"}

Layers == {"main", "entity", "domain", "limits", "app", "failing", "interest", "threads",
           "creation", "scenario", "statement", "figures"}

\* The caller's threads.
Threads == {"t1", "t2"}

\* A thread that has not called yet.
Idle == [pc |-> "idle", op |-> None, src |-> None, dst |-> None, amount |-> 0,
         tmp |-> 0, result |-> None, held |-> {}]

EmptyMap == [x \in {} |-> 0]

(***************************************************************************)
(* Arithmetic helpers.                                                     *)
(***************************************************************************)
RECURSIVE SumSeqAmounts(_)
SumSeqAmounts(s) ==
    IF s = <<>> THEN 0 ELSE Head(s).amount + SumSeqAmounts(Tail(s))

RECURSIVE SumOver(_, _)
SumOver(f, S) ==
    IF S = {} THEN 0
    ELSE LET x == CHOOSE y \in S : TRUE IN f[x] + SumOver(f, S \ {x})

RECURSIVE LenOver(_, _)
LenOver(f, S) ==
    IF S = {} THEN 0
    ELSE LET x == CHOOSE y \in S : TRUE IN Len(f[x]) + LenOver(f, S \ {x})

\* The sum of every balance the running wiring holds.
TotalBalance ==
    IF layer \in MainWirings THEN SumOver(accounts, DOMAIN accounts)
    ELSE SumOver(balance, Objects)

\* The number of transaction records the running wiring holds.
TotalRecords ==
    IF layer \in MainWirings THEN LenOver(transactions, DOMAIN transactions)
    ELSE Len(txRepo) + LenOver(acctTx, Objects)

\* The state-space cap: calls whose outcome would exceed it are not issued.
Cap ==
    \/ layer = "scenario"
    \/ /\ TotalRecords <= MaxRecords
       /\ \A a \in Objects : balance[a] <= MaxBalance
       /\ \A m \in DOMAIN accounts : accounts[m] <= MaxBalance
       /\ \A a \in Objects : accrued[a] <= MaxBalance

(***************************************************************************)
(* domain/entities/transaction.py                                          *)
(***************************************************************************)
\* Transaction(account_id, transaction_type, amount, source_account_id,
\* destination_account_id).
Transaction(aid, type, amt, src, dst) ==
    [account_id |-> aid, transaction_type |-> type, amount |-> amt,
     source_account_id |-> src, destination_account_id |-> dst]

(***************************************************************************)
(* domain/repositories/transaction_repository.py (and the save_transaction *)
(* / get_transactions_for_account pair of infrastructure/transaction_repo) *)
(***************************************************************************)
\* A variant of save that puts the record in front of the saved ones.
SaveInFront(repo, transaction) == <<transaction>> \o repo

\* TransactionRepository.save: self.transactions.append(transaction).
Save(repo, transaction) == Append(repo, transaction)

\* TransactionRepository.find_by_account_id: the records of the account, in
\* the order of the list.
FindByAccountId(repo, account_id) == SelectSeq(repo, LAMBDA t : t.account_id = account_id)

\* The outcome of the call just made.
Call(op, src, dst, amt, result, updated, returned) ==
    [op |-> op, src |-> src, dst |-> dst, amount |-> amt, result |-> result,
     updated |-> updated, returned |-> returned]

\* The Account objects as a value, so that method bodies compose.
Heap == [balance |-> balance, acctTx |-> acctTx]

Raise(h, err) == [raised |-> err, balance |-> h.balance, acctTx |-> h.acctTx, ret |-> None]

Return(bal, txs, ret) == [raised |-> None, balance |-> bal, acctTx |-> txs, ret |-> ret]

\* Python truthiness of a method's return value ("None" and "False" are falsy).
Truthy(v) == v \notin {None, "False"}

(***************************************************************************)
(* domain/entities/account.py: the Account entity.  Each method takes the  *)
(* objects h and yields the objects after it, the exception it raised      *)
(* (None when it returned) and its return value.                           *)
(***************************************************************************)
\* Account.deposit: no return statement, so it returns None.
AccountDeposit(h, a, amt) ==
    IF amt <= 0 THEN Raise(h, "InvalidAmount")
    ELSE Return([h.balance EXCEPT ![a] = @ + amt],
                [h.acctTx EXCEPT ![a] = Append(@, Transaction(a, "deposit", amt, None, None))],
                None)

\* Account.withdraw: no return statement, so it returns None.
AccountWithdraw(h, a, amt) ==
    IF amt <= 0 THEN Raise(h, "InvalidAmount")
    ELSE IF amt > h.balance[a] THEN Raise(h, "InsufficientFunds")
    ELSE Return([h.balance EXCEPT ![a] = @ - amt],
                [h.acctTx EXCEPT ![a] = Append(@, Transaction(a, "withdrawal", amt, None, None))],
                None)

\* Account.transfer_to, lines 54-78: the debit, the credit and the two records
\* are each written twice (lines 55-70 and again lines 73-78).
TransferToBalances(bal, a, b, amt) ==
    LET b1 == [bal EXCEPT ![a] = @ - amt]
        b2 == [b1 EXCEPT ![b] = @ + amt]
        b3 == [b2 EXCEPT ![a] = @ - amt]
    IN  [b3 EXCEPT ![b] = @ + amt]

TransferToRecords(txs, a, b, amt) ==
    LET t1 == [txs EXCEPT ![a] = Append(@, Transaction(a, "TRANSFER_OUT", amt, None, b))]
        t2 == [t1 EXCEPT ![b] = Append(@, Transaction(b, "TRANSFER_IN", amt, a, None))]
        t3 == [t2 EXCEPT ![a] = Append(@, Transaction(a, "transfer_out", amt, None, None))]
    IN  [t3 EXCEPT ![b] = Append(@, Transaction(b, "transfer_in", amt, None, None))]

AccountTransferTo(h, a, b, amt) ==
    IF amt <= 0 THEN Raise(h, "InvalidAmount")
    ELSE IF amt > h.balance[a] THEN Raise(h, "InsufficientFunds")
    ELSE IF a = b THEN Raise(h, "SameAccount")
    ELSE Return(TransferToBalances(h.balance, a, b, amt),
                TransferToRecords(h.acctTx, a, b, amt),
                None)

\* The outcome of a call as the caller sees it.
Outcome(r) == IF r.raised = None THEN "ok" ELSE r.raised

\* A call that raised before it touched the ledger leaves every object and
\* record as it found them, so whatever can follow it can as well be called in
\* its place: the model does not extend a run past such a call.  The errors
\* below are raised after the ledger was written, and runs go on past them.
Live == last.result \in {"ok", "DepositFailed", "WithdrawalFailed", "TypeError"}

(***************************************************************************)
(* Direct calls of the entity's methods (as in tests/test_account.py).     *)
(***************************************************************************)
EntityDeposit(a, amt) ==
    /\ layer = "entity"
    /\ Live
    /\ LET r == AccountDeposit(Heap, a, amt) IN
        /\ balance' = r.balance
        /\ acctTx' = r.acctTx
        /\ last' = Call("Account.deposit", a, None, amt, Outcome(r), {}, <<>>)
    /\ UNCHANGED <<layer, txRepo, accounts, transactions>>
    /\ UNCHANGED <<accrued, thr>>
    /\ UNCHANGED <<store, given>>
    /\ Cap'

EntityWithdraw(a, amt) ==
    /\ layer = "entity"
    /\ Live
    /\ LET r == AccountWithdraw(Heap, a, amt) IN
        /\ balance' = r.balance
        /\ acctTx' = r.acctTx
        /\ last' = Call("Account.withdraw", a, None, amt, Outcome(r), {}, <<>>)
    /\ UNCHANGED <<layer, txRepo, accounts, transactions>>
    /\ UNCHANGED <<accrued, thr>>
    /\ UNCHANGED <<store, given>>
    /\ Cap'

EntityTransferTo(a, b, amt) ==
    /\ layer = "entity"
    /\ Live
    /\ LET r == AccountTransferTo(Heap, a, b, amt) IN
        /\ balance' = r.balance
        /\ acctTx' = r.acctTx
        /\ last' = Call("Account.transfer_to", a, b, amt, Outcome(r), {}, <<>>)
    /\ UNCHANGED <<layer, txRepo, accounts, transactions>>
    /\ UNCHANGED <<accrued, thr>>
    /\ UNCHANGED <<store, given>>
    /\ Cap'

(***************************************************************************)
(* The account repositories.  Both keep references to the Account objects, *)
(* so a change made to an object is at once the state the repository       *)
(* returns; update_account only re-binds the key to the same object.       *)
(***************************************************************************)
\* AccountRepository.find_by_id / get_account_by_id: dict.get(account_id).
Resolve(id) == IF id \in Stored THEN id ELSE None

(***************************************************************************)
(* domain/services/transaction_service.py                                  *)
(***************************************************************************)
DomainDeposit(id, amt) ==
    /\ layer = "domain"
    /\ Live
    /\ IF Resolve(id) = None
       THEN /\ last' = Call("domain.deposit", id, None, amt, "AccountNotFound", {}, <<>>)
            /\ UNCHANGED <<balance, acctTx, txRepo>>
       ELSE LET r == AccountDeposit(Heap, id, amt) IN
            /\ balance' = r.balance
            /\ acctTx' = r.acctTx
            /\ txRepo' = IF r.raised = None
                         THEN Save(txRepo, Transaction(id, "deposit", amt, None, None))
                         ELSE txRepo
            /\ last' = Call("domain.deposit", id, None, amt, Outcome(r), {}, <<>>)
    /\ UNCHANGED <<layer, accounts, transactions>>
    /\ UNCHANGED <<accrued, thr>>
    /\ UNCHANGED <<store, given>>
    /\ Cap'

DomainWithdraw(id, amt) ==
    /\ layer = "domain"
    /\ Live
    /\ IF Resolve(id) = None
       THEN /\ last' = Call("domain.withdraw", id, None, amt, "AccountNotFound", {}, <<>>)
            /\ UNCHANGED <<balance, acctTx, txRepo>>
       ELSE LET r == AccountWithdraw(Heap, id, amt) IN
            /\ balance' = r.balance
            /\ acctTx' = r.acctTx
            /\ txRepo' = IF r.raised = None
                         THEN Save(txRepo, Transaction(id, "withdrawal", amt, None, None))
                         ELSE txRepo
            /\ last' = Call("domain.withdraw", id, None, amt, Outcome(r), {}, <<>>)
    /\ UNCHANGED <<layer, accounts, transactions>>
    /\ UNCHANGED <<accrued, thr>>
    /\ UNCHANGED <<store, given>>
    /\ Cap'

(***************************************************************************)
(* domain/repositories/account_repository.py: AccountRepository.transfer   *)
(***************************************************************************)
RepoTransfer(s, d, amt) ==
    /\ layer = "entity"
    /\ Live
    /\ IF Resolve(s) = None \/ Resolve(d) = None
       THEN /\ last' = Call("AccountRepository.transfer", s, d, amt, "AccountNotFound", {}, <<>>)
            /\ UNCHANGED <<balance, acctTx>>
       ELSE LET r == AccountTransferTo(Heap, s, d, amt) IN
            /\ balance' = r.balance
            /\ acctTx' = r.acctTx
            /\ last' = Call("AccountRepository.transfer", s, d, amt, Outcome(r), {}, <<>>)
    /\ UNCHANGED <<layer, txRepo, accounts, transactions>>
    /\ UNCHANGED <<accrued, thr>>
    /\ UNCHANGED <<store, given>>
    /\ Cap'

(***************************************************************************)
(* domain/services/transfer_service.py: TransferService.transfer takes the *)
(* two Account objects, not their ids.                                     *)
(***************************************************************************)
\* Lines 13-25: the checks, in the order the code makes them.
TransferServiceCheck(bal, s, d, amt) ==
    IF amt <= 0 THEN "InvalidAmount"
    ELSE IF bal[s] < amt THEN "InsufficientFunds"
    ELSE IF Resolve(s) = None THEN "SourceNotFound"
    ELSE IF Resolve(d) = None THEN "DestinationNotFound"
    ELSE "ok"

\* Lines 29 and 40.
TransferServiceBalances(bal, s, d, amt) ==
    LET b1 == [bal EXCEPT ![s] = @ - amt]
    IN  [b1 EXCEPT ![d] = @ + amt]

TransferServiceTransfer(s, d, amt) ==
    /\ layer = "domain"
    /\ Live
    /\ LET res == TransferServiceCheck(balance, s, d, amt)
           source_tx == Transaction(s, "transfer_out", amt, None, d)
           destination_tx == Transaction(d, "transfer_in", amt, s, None)
       IN
       /\ IF res = "ok"
          THEN /\ balance' = TransferServiceBalances(balance, s, d, amt)
               /\ acctTx' = LET t1 == [acctTx EXCEPT ![s] = Append(@, source_tx)]
                            IN  [t1 EXCEPT ![d] = Append(@, destination_tx)]
               /\ txRepo' = Save(Save(txRepo, source_tx), destination_tx)
          ELSE UNCHANGED <<balance, acctTx, txRepo>>
       /\ last' = Call("TransferService.transfer", s, d, amt, res, {}, <<>>)
    /\ UNCHANGED <<layer, accounts, transactions>>
    /\ UNCHANGED <<accrued, thr>>
    /\ UNCHANGED <<store, given>>
    /\ Cap'

(***************************************************************************)
(* domain/constraints/daily_monthly_limit.py and                           *)
(* domain/services/account_service.py                                      *)
(***************************************************************************)
\* DailyMonthlyLimit(daily_limit, monthly_limit): the configured limits (the
\* defaults are 1000.0 and 10000.0; the model scales them to its amounts).
daily_limit == 2
monthly_limit == 3

\* account.account_type: AccountType.SAVINGS / AccountType.CHECKING.
account_type == [a \in Objects |-> IF a = "a1" THEN "SAVINGS" ELSE "CHECKING"]

\* The records the limit's generator expressions select: those whose
\* transaction_type equals "withdraw".
WithdrawTyped(txs) == SelectSeq(txs, LAMBDA t : t.transaction_type = "withdraw")

\* DailyMonthlyLimit.validate_withdrawal.  For a record of type "withdraw" the
\* filter goes on to read t.date, which no Transaction has (AttributeError);
\* for every other record the `and` stops at the type, so both totals are the
\* sum over the selected records.
ValidateWithdrawalLimit(txs, amt) ==
    LET selected == WithdrawTyped(txs)
        daily_total == SumSeqAmounts(selected)
        monthly_total == SumSeqAmounts(selected)
    IN  IF selected # <<>> THEN "AttributeError"
        ELSE IF daily_total + amt > daily_limit THEN "DailyLimitExceeded"
        ELSE IF monthly_total + amt > monthly_limit THEN "MonthlyLimitExceeded"
        ELSE "ok"

\* AccountService.validate_account_balance: account_type == "savings" and balance < 5000.
SavingsMinimum == 5000
ValidateAccountBalance(bal, a) ==
    IF account_type[a] = "savings" /\ bal[a] < SavingsMinimum THEN "MinimumBalance" ELSE "ok"

\* AccountService.validate_withdrawal.
ValidateWithdrawal(bal, a, amt) ==
    IF amt > bal[a] THEN "InsufficientFunds" ELSE "ok"

\* AccountService.withdraw, lines 22-25: the first failing check (an account
\* the repository does not hold is None, and reading its fields raises).
AccountServiceWithdrawCheck(h, id, amt) ==
    IF Resolve(id) = None THEN "AttributeError"
    ELSE IF ValidateAccountBalance(h.balance, id) # "ok" THEN ValidateAccountBalance(h.balance, id)
    ELSE IF ValidateWithdrawal(h.balance, id, amt) # "ok" THEN ValidateWithdrawal(h.balance, id, amt)
    ELSE ValidateWithdrawalLimit(h.acctTx[id], amt)

AccountServiceWithdraw(id, amt) ==
    /\ layer = "limits"
    /\ Live
    /\ LET chk == AccountServiceWithdrawCheck(Heap, id, amt) IN
       IF chk # "ok"
       THEN /\ last' = Call("AccountService.withdraw", id, None, amt, chk, {}, <<>>)
            /\ UNCHANGED <<balance, acctTx>>
       ELSE LET r == AccountWithdraw(Heap, id, amt) IN
            /\ balance' = r.balance
            /\ acctTx' = r.acctTx
            /\ last' = Call("AccountService.withdraw", id, None, amt, Outcome(r),
                            IF r.raised = None THEN {id} ELSE {}, <<>>)
    /\ UNCHANGED <<layer, txRepo, accounts, transactions>>
    /\ UNCHANGED <<accrued, thr>>
    /\ UNCHANGED <<store, given>>
    /\ Cap'

\* AccountService.deposit: the amount is validated after the account is fetched.
AccountServiceDeposit(id, amt) ==
    /\ layer = "limits"
    /\ Live
    /\ IF amt <= 0
       THEN /\ last' = Call("AccountService.deposit", id, None, amt, "InvalidAmount", {}, <<>>)
            /\ UNCHANGED <<balance, acctTx>>
       ELSE IF Resolve(id) = None
       THEN /\ last' = Call("AccountService.deposit", id, None, amt, "AttributeError", {}, <<>>)
            /\ UNCHANGED <<balance, acctTx>>
       ELSE LET r == AccountDeposit(Heap, id, amt) IN
            /\ balance' = r.balance
            /\ acctTx' = r.acctTx
            /\ last' = Call("AccountService.deposit", id, None, amt, Outcome(r), {id}, <<>>)
    /\ UNCHANGED <<layer, txRepo, accounts, transactions>>
    /\ UNCHANGED <<accrued, thr>>
    /\ UNCHANGED <<store, given>>
    /\ Cap'

(***************************************************************************)
(* application/transaction_service.py over infrastructure/account_repo.py  *)
(* and infrastructure/transaction_repo.py                                  *)
(***************************************************************************)
\* Transaction(transaction_id=..., timestamp=..., description=...): the
\* constructor of domain/entities/transaction.py takes none of these keywords.
TransactionAcceptsServiceKeywords == FALSE

\* TransactionService.deposit, lines 29-59.
AppDeposit(id, amt) ==
    /\ layer = "app"
    /\ Live
    /\ IF amt <= 0
       THEN /\ last' = Call("app.deposit", id, None, amt, "InvalidAmount", {}, <<>>)
            /\ UNCHANGED <<balance, acctTx, txRepo>>
       ELSE IF Resolve(id) = None
       THEN /\ last' = Call("app.deposit", id, None, amt, "AccountNotFound", {}, <<>>)
            /\ UNCHANGED <<balance, acctTx, txRepo>>
       ELSE LET r == AccountDeposit(Heap, id, amt)
                transaction == Transaction(id, "DEPOSIT", amt, None, None)
            IN
            /\ balance' = r.balance
            /\ acctTx' = r.acctTx
            /\ IF r.raised # None
               THEN /\ last' = Call("app.deposit", id, None, amt, r.raised, {}, <<>>)
                    /\ UNCHANGED txRepo
               ELSE IF ~Truthy(r.ret)
               THEN /\ last' = Call("app.deposit", id, None, amt, "DepositFailed", {}, <<>>)
                    /\ UNCHANGED txRepo
               ELSE IF ~TransactionAcceptsServiceKeywords
               THEN /\ last' = Call("app.deposit", id, None, amt, "TypeError", {id}, <<>>)
                    /\ UNCHANGED txRepo
               ELSE /\ last' = Call("app.deposit", id, None, amt, "ok", {id}, <<transaction>>)
                    /\ txRepo' = Save(txRepo, transaction)
    /\ UNCHANGED <<layer, accounts, transactions>>
    /\ UNCHANGED <<accrued, thr>>
    /\ UNCHANGED <<store, given>>
    /\ Cap'

\* TransactionService.withdraw, lines 76-106.
AppWithdraw(id, amt) ==
    /\ layer = "app"
    /\ Live
    /\ IF amt <= 0
       THEN /\ last' = Call("app.withdraw", id, None, amt, "InvalidAmount", {}, <<>>)
            /\ UNCHANGED <<balance, acctTx, txRepo>>
       ELSE IF Resolve(id) = None
       THEN /\ last' = Call("app.withdraw", id, None, amt, "AccountNotFound", {}, <<>>)
            /\ UNCHANGED <<balance, acctTx, txRepo>>
       ELSE LET r == AccountWithdraw(Heap, id, amt)
                transaction == Transaction(id, "WITHDRAW", amt, None, None)
            IN
            /\ balance' = r.balance
            /\ acctTx' = r.acctTx
            /\ IF r.raised # None
               THEN /\ last' = Call("app.withdraw", id, None, amt, r.raised, {}, <<>>)
                    /\ UNCHANGED txRepo
               ELSE IF ~Truthy(r.ret)
               THEN /\ last' = Call("app.withdraw", id, None, amt, "WithdrawalFailed", {}, <<>>)
                    /\ UNCHANGED txRepo
               ELSE IF ~TransactionAcceptsServiceKeywords
               THEN /\ last' = Call("app.withdraw", id, None, amt, "TypeError", {id}, <<>>)
                    /\ UNCHANGED txRepo
               ELSE /\ last' = Call("app.withdraw", id, None, amt, "ok", {id}, <<transaction>>)
                    /\ txRepo' = Save(txRepo, transaction)
    /\ UNCHANGED <<layer, accounts, transactions>>
    /\ UNCHANGED <<accrued, thr>>
    /\ UNCHANGED <<store, given>>
    /\ Cap'

(***************************************************************************)
(* application/fund_transfer_service.py                                    *)
(***************************************************************************)
\* Lines 47-61: the checks, in the order the code makes them.
FundTransferCheck(bal, s, d, amt) ==
    IF amt <= 0 THEN "InvalidAmount"
    ELSE IF Resolve(s) = None THEN "SourceNotFound"
    ELSE IF Resolve(d) = None THEN "DestinationNotFound"
    ELSE IF bal[s] < amt THEN "InsufficientFunds"
    ELSE "ok"

\* A variant of lines 63-64 that computes both new balances from the balances
\* read before the debit (two copies of the account instead of one object).
FundTransferBalancesFromCopies(bal, s, d, amt) ==
    LET b1 == [bal EXCEPT ![s] = bal[s] - amt]
    IN  [b1 EXCEPT ![d] = bal[d] + amt]

\* A variant of lines 63-64 that loses the credit of line 64.
FundTransferBalancesLostCredit(bal, s, d, amt) ==
    [bal EXCEPT ![s] = @ - amt]

\* Lines 63-64.  With s = d both names denote one object.
FundTransferBalances(bal, s, d, amt) ==
    LET b1 == [bal EXCEPT ![s] = @ - amt]
    IN  [b1 EXCEPT ![d] = @ + amt]

\* A variant of transfer_funds that debits the source before it looks at the
\* balance (lines 60-61 moved below line 63).
FundTransferDebitFirst(s, d, amt) ==
    /\ layer \in AppWirings
    /\ Live
    /\ LET res == FundTransferCheck(balance, s, d, amt)
           outgoing_transaction == Transaction(s, "transfer_out", amt, s, d)
           incoming_transaction == Transaction(d, "transfer_in", amt, s, d)
       IN
       IF res = "ok"
       THEN /\ balance' = FundTransferBalances(balance, s, d, amt)
            /\ txRepo' = Save(Save(txRepo, outgoing_transaction), incoming_transaction)
            /\ last' = Call("app.transfer_funds", s, d, amt, "ok", {s, d},
                            <<outgoing_transaction, incoming_transaction>>)
       ELSE IF res = "InsufficientFunds"
       THEN /\ balance' = [balance EXCEPT ![s] = @ - amt]
            /\ last' = Call("app.transfer_funds", s, d, amt, res, {}, <<>>)
            /\ UNCHANGED txRepo
       ELSE /\ last' = Call("app.transfer_funds", s, d, amt, res, {}, <<>>)
            /\ UNCHANGED <<balance, txRepo>>
    /\ UNCHANGED <<layer, acctTx, accounts, transactions>>
    /\ UNCHANGED <<accrued, thr>>
    /\ UNCHANGED <<store, given>>
    /\ Cap'

\* FundTransferService.transfer_funds.
FundTransfer(s, d, amt) ==
    /\ layer \in AppWirings
    /\ Live
    /\ LET res == FundTransferCheck(balance, s, d, amt)
           outgoing_transaction == Transaction(s, "transfer_out", amt, s, d)
           incoming_transaction == Transaction(d, "transfer_in", amt, s, d)
       IN
       IF res = "ok"
       THEN /\ balance' = FundTransferBalances(balance, s, d, amt)
            /\ txRepo' = Save(Save(txRepo, outgoing_transaction), incoming_transaction)
            /\ last' = Call("app.transfer_funds", s, d, amt, "ok", {s, d},
                            <<outgoing_transaction, incoming_transaction>>)
       ELSE /\ last' = Call("app.transfer_funds", s, d, amt, res, {}, <<>>)
            /\ UNCHANGED <<balance, txRepo>>
    /\ UNCHANGED <<layer, acctTx, accounts, transactions>>
    /\ UNCHANGED <<accrued, thr>>
    /\ UNCHANGED <<store, given>>
    /\ Cap'

(***************************************************************************)
(* main.py: the endpoints over the dictionaries accounts and transactions  *)
(***************************************************************************)
\* main.Transaction(type, amount, balance_after).
MainTransaction(type, amt, after) == [type |-> type, amount |-> amt, balance_after |-> after]

Put(f, k, v) == [x \in DOMAIN f \cup {k} |-> IF x = k THEN v ELSE f[x]]

\* POST /accounts: account_id = str(uuid4()), a key not yet in use.  The
\* request's account_type is stored and returned as it came (no handler reads
\* it back); the model keeps it in the response.
MainCreateAccount(id, type, initial_deposit) ==
    /\ layer \in MainWirings
    /\ Live
    /\ id \notin DOMAIN accounts
    /\ accounts' = Put(accounts, id, initial_deposit)
    /\ transactions' = Put(transactions, id,
                           <<MainTransaction("deposit", initial_deposit, initial_deposit)>>)
    /\ last' = Call("main.create_account", type, None, initial_deposit, "ok", {id},
                    <<[account_id |-> id, type |-> type, balance |-> initial_deposit]>>)
    /\ UNCHANGED <<layer, balance, acctTx, txRepo>>
    /\ UNCHANGED <<accrued, thr>>
    /\ UNCHANGED <<store, given>>
    /\ Cap'

\* POST /accounts/{account_id}/deposit.
MainDeposit(id, amt) ==
    /\ layer \in MainWirings
    /\ Live
    /\ IF id \notin DOMAIN accounts
       THEN /\ last' = Call("main.deposit", id, None, amt, "AccountNotFound", {}, <<>>)
            /\ UNCHANGED <<accounts, transactions>>
       ELSE LET new_balance == accounts[id] + amt IN
            /\ accounts' = [accounts EXCEPT ![id] = new_balance]
            /\ transactions' = [transactions EXCEPT
                                   ![id] = Append(@, MainTransaction("deposit", amt, new_balance))]
            /\ last' = Call("main.deposit", id, None, amt, "ok", {id}, <<>>)
    /\ UNCHANGED <<layer, balance, acctTx, txRepo>>
    /\ UNCHANGED <<accrued, thr>>
    /\ UNCHANGED <<store, given>>
    /\ Cap'

\* POST /accounts/{account_id}/withdraw.
MainWithdraw(id, amt) ==
    /\ layer \in MainWirings
    /\ Live
    /\ IF id \notin DOMAIN accounts
       THEN /\ last' = Call("main.withdraw", id, None, amt, "AccountNotFound", {}, <<>>)
            /\ UNCHANGED <<accounts, transactions>>
       ELSE IF amt > accounts[id]
       THEN /\ last' = Call("main.withdraw", id, None, amt, "InsufficientFunds", {}, <<>>)
            /\ UNCHANGED <<accounts, transactions>>
       ELSE LET new_balance == accounts[id] - amt IN
            /\ accounts' = [accounts EXCEPT ![id] = new_balance]
            /\ transactions' = [transactions EXCEPT
                                   ![id] = Append(@, MainTransaction("withdraw", amt, new_balance))]
            /\ last' = Call("main.withdraw", id, None, amt, "ok", {id}, <<>>)
    /\ UNCHANGED <<layer, balance, acctTx, txRepo>>
    /\ UNCHANGED <<accrued, thr>>
    /\ UNCHANGED <<store, given>>
    /\ Cap'

\* A variant of lines 127-128 that debits the source and credits nobody.
MainTransferBalancesNoCredit(acc, source, dest, amount) ==
    [acc EXCEPT ![source] = @ - amount]

\* Lines 127-128.
MainTransferBalances(acc, source, dest, amount) ==
    LET a1 == [acc EXCEPT ![source] = @ - amount]
    IN  [a1 EXCEPT ![dest] = @ + amount]

\* POST /accounts/transfer.
MainTransferFunds(source, dest, amount) ==
    /\ layer \in MainWirings
    /\ Live
    /\ IF source \notin DOMAIN accounts \/ dest \notin DOMAIN accounts
       THEN /\ last' = Call("main.transfer_funds", source, dest, amount, "AccountNotFound", {}, <<>>)
            /\ UNCHANGED <<accounts, transactions>>
       ELSE IF accounts[source] < amount
       THEN /\ last' = Call("main.transfer_funds", source, dest, amount, "InsufficientFunds", {}, <<>>)
            /\ UNCHANGED <<accounts, transactions>>
       ELSE LET acc == MainTransferBalances(accounts, source, dest, amount)
                t1 == [transactions EXCEPT
                          ![source] = Append(@, MainTransaction("transfer-out", amount, acc[source]))]
            IN
            /\ accounts' = acc
            /\ transactions' = [t1 EXCEPT
                                   ![dest] = Append(@, MainTransaction("transfer-in", amount, acc[dest]))]
            /\ last' = Call("main.transfer_funds", source, dest, amount, "ok", {source, dest}, <<>>)
    /\ UNCHANGED <<layer, balance, acctTx, txRepo>>
    /\ UNCHANGED <<accrued, thr>>
    /\ UNCHANGED <<store, given>>
    /\ Cap'

(***************************************************************************)
(* The end-to-end sequence of the specification (section 6) against the    *)
(* endpoints of main.py: the calls below, in this order and no others.     *)
(***************************************************************************)
Scenario ==
    << [op |-> "main.create_account", id |-> "m1", type |-> "SAVINGS", dst |-> None, amount |-> 100],
       [op |-> "main.create_account", id |-> "m2", type |-> "CHECKING", dst |-> None, amount |-> 0],
       [op |-> "main.withdraw", id |-> "m1", type |-> None, dst |-> None, amount |-> 30],
       [op |-> "main.transfer_funds", id |-> "m1", type |-> None, dst |-> "m2", amount |-> 20] >>

\* Whether the call just made is the k-th of the sequence (the 0-th is the
\* start of the program).
Made(k) ==
    IF k = 0 THEN last.op = "init"
    ELSE /\ last.op = Scenario[k].op
         /\ last.amount = Scenario[k].amount
         /\ last.result = "ok"
         /\ last.updated = {Scenario[k].id} \cup ({Scenario[k].dst} \ {None})

\* The caller makes the k-th call once the one before it has returned.
ScenarioStep(k) ==
    /\ layer = "scenario"
    /\ Made(k - 1)
    /\ LET c == Scenario[k] IN
       CASE c.op = "main.create_account" -> MainCreateAccount(c.id, c.type, c.amount)
         [] c.op = "main.withdraw" -> MainWithdraw(c.id, c.amount)
         [] c.op = "main.transfer_funds" -> MainTransferFunds(c.id, c.dst, c.amount)

(***************************************************************************)
(* application/account_creation_service.py over                            *)
(* infrastructure/account_repo.py.  domain/entities/account.py imports     *)
(* AccountType and AccountStatus from modules the repository does not      *)
(* hold; their members follow the specification (section 3, Account).      *)
(***************************************************************************)
\* The uuid4 strings the wiring draws, in the order it draws them (a drawn one
\* is never drawn again; which strings they are changes nothing).
Uuids == <<"u1", "u2", "u3", "u4">>

\* The initial deposits requested of the service: negative, zero, below and
\* at the savings minimum.
CreationDeposits == {-1, 0, 50, 100}

\* The members of AccountType (looked up by value) and the status a new
\* account is given.
AccountType == {"CHECKING", "SAVINGS"}
AccountStatusActive == "ACTIVE"

\* str.upper() on the requested types.
Upper(t) == IF t = "checking" THEN "CHECKING" ELSE t

\* Line 38: the least initial deposit of a savings account.
MinimumSavingsDeposit == 100

\* The uuids already drawn: the keys of the repository and the account_id of
\* every account it holds.
Drawn(st) == DOMAIN st \cup {st[k].account_id : k \in DOMAIN st}

\* The n-th uuid4 string drawn from now on.
Draw(st, n) ==
    LET fresh == SelectSeq(Uuids, LAMBDA u : u \notin Drawn(st))
    IN  IF n <= Len(fresh) THEN fresh[n] ELSE None

\* The balances the caller writes back.
UpdatedBalances == {0, 50}

\* AccountRepository.get_account_by_id: self._accounts.get(account_id), an
\* Optional[Account], here a sequence of no or one account.
GetAccountById(st, id) == IF id \in DOMAIN st THEN <<st[id]>> ELSE <<>>

\* AccountRepository.create_account, lines 10-14: key is the uuid drawn on
\* line 11; the account's `id` is set to it and the account filed under it.
RepoCreateAccount(st, account, key) ==
    Put(st, key, [account EXCEPT !.id = key])

\* AccountRepository.update_account, lines 19-21.
RepoUpdateAccount(st, account) ==
    IF account.id \in DOMAIN st THEN [st EXCEPT ![account.id] = account] ELSE st

\* AccountCreationService.create_account, lines 27-61.  account_id is the
\* uuid drawn on line 42, key the one the repository draws after it.
CreateAccount(type, initial_deposit) ==
    /\ layer = "creation"
    /\ Live
    /\ Draw(store, 2) # None
    /\ LET account_id == Draw(store, 1)
           key == Draw(store, 2)
       IN
       IF Upper(type) \notin AccountType
       THEN /\ last' = Call("AccountCreationService.create_account", type, None,
                            initial_deposit, "InvalidAccountType", {}, <<>>)
            /\ UNCHANGED store
       ELSE IF initial_deposit < 0
       THEN /\ last' = Call("AccountCreationService.create_account", type, None,
                            initial_deposit, "NegativeInitialDeposit", {}, <<>>)
            /\ UNCHANGED store
       ELSE IF Upper(type) = "SAVINGS" /\ initial_deposit < MinimumSavingsDeposit
       THEN /\ last' = Call("AccountCreationService.create_account", type, None,
                            initial_deposit, "MinimumDeposit", {}, <<>>)
            /\ UNCHANGED store
       ELSE LET account == [account_id |-> account_id, id |-> None,
                            account_type |-> Upper(type), balance |-> initial_deposit,
                            status |-> AccountStatusActive]
            IN
            /\ store' = RepoCreateAccount(store, account, key)
            /\ last' = Call("AccountCreationService.create_account", type, None,
                            initial_deposit, "ok", {key}, <<[account_id |-> account_id]>>)
    /\ UNCHANGED <<layer, balance, acctTx, txRepo, accounts, transactions, accrued, thr, given>>

\* The caller reads an account back: AccountRepository.get_account_by_id.
GetAccount(id) ==
    /\ layer = "creation"
    /\ Live
    /\ store # EmptyMap
    /\ last' = Call("AccountRepository.get_account_by_id", id, None, 0,
                    IF GetAccountById(store, id) = <<>> THEN "None" ELSE "ok", {},
                    GetAccountById(store, id))
    /\ UNCHANGED <<layer, balance, acctTx, txRepo, accounts, transactions, accrued, thr,
                   store, given>>

\* The caller writes an account back: AccountRepository.update_account with
\* an Account object whose id is `id` and whose balance is now new_balance
\* (a copy of the stored one, or one the repository never filed).
UpdateAccount(id, new_balance) ==
    /\ layer = "creation"
    /\ Live
    /\ store # EmptyMap
    /\ LET account == IF id \in DOMAIN store
                      THEN [store[id] EXCEPT !.balance = new_balance]
                      ELSE [account_id |-> id, id |-> id, account_type |-> "CHECKING",
                            balance |-> new_balance, status |-> AccountStatusActive]
       IN
       /\ <<account>> # GetAccountById(store, id)
       /\ store' = RepoUpdateAccount(store, account)
       /\ last' = Call("AccountRepository.update_account", id, None, new_balance, "ok",
                       IF id \in DOMAIN store THEN {id} ELSE {}, <<account>>)
    /\ UNCHANGED <<layer, balance, acctTx, txRepo, accounts, transactions, accrued, thr, given>>

(***************************************************************************)
(* The transfer services over repositories one of whose writes raises.     *)
(* The repositories are constructor arguments; the in-memory ones of src/  *)
(* never raise, a store behind the same interface can.                     *)
(***************************************************************************)
\* The store calls of FundTransferService.transfer_funds (lines 67, 68, 88, 89).
FundTransferStoreCalls == <<"update_source", "update_destination", "save_outgoing", "save_incoming">>

\* The store calls inside the try block of TransferService.transfer (lines 37, 48).
TransferServiceStoreCalls == <<"save_source_tx", "save_destination_tx">>

\* The position of a call in the order the service makes them.
Position(calls, step) == CHOOSE i \in 1..Len(calls) : calls[i] = step

\* FundTransferService.transfer_funds when store call `step` raises: nothing
\* catches the exception, so the caller gets the store's own error, after the
\* balances were changed and the earlier store calls were made.
FundTransferStoreFails(s, d, amt, step) ==
    /\ layer = "failing"
    /\ Live
    /\ FundTransferCheck(balance, s, d, amt) = "ok"
    /\ LET n == Position(FundTransferStoreCalls, step)
           outgoing_transaction == Transaction(s, "transfer_out", amt, s, d)
       IN
       /\ balance' = FundTransferBalances(balance, s, d, amt)
       /\ txRepo' = IF n > 3 THEN Save(txRepo, outgoing_transaction) ELSE txRepo
       /\ last' = Call("failing.transfer_funds", s, d, amt, "StoreError",
                       IF n = 1 THEN {} ELSE IF n = 2 THEN {s} ELSE {s, d},
                       <<>>)
    /\ UNCHANGED <<layer, acctTx, accounts, transactions>>
    /\ UNCHANGED <<accrued, thr>>
    /\ UNCHANGED <<store, given>>
    /\ Cap'

\* TransferService.transfer when store call `step` raises: the except clause
\* of lines 50-52 turns the exception into RuntimeError("Transfer failed: ...");
\* what the try block did before the failing call stays done.
TransferServiceStoreFails(s, d, amt, step) ==
    /\ layer = "failing"
    /\ Live
    /\ TransferServiceCheck(balance, s, d, amt) = "ok"
    /\ LET n == Position(TransferServiceStoreCalls, step)
           source_tx == Transaction(s, "transfer_out", amt, None, d)
           destination_tx == Transaction(d, "transfer_in", amt, s, None)
           t1 == [acctTx EXCEPT ![s] = Append(@, source_tx)]
       IN
       /\ balance' = IF n = 1 THEN [balance EXCEPT ![s] = @ - amt]
                     ELSE TransferServiceBalances(balance, s, d, amt)
       /\ acctTx' = IF n = 1 THEN t1 ELSE [t1 EXCEPT ![d] = Append(@, destination_tx)]
       /\ txRepo' = IF n = 1 THEN txRepo ELSE Save(txRepo, source_tx)
       /\ last' = Call("failing.TransferService.transfer", s, d, amt, "TransferFailed", {}, <<>>)
    /\ UNCHANGED <<layer, accounts, transactions>>
    /\ UNCHANGED <<accrued, thr>>
    /\ UNCHANGED <<store, given>>
    /\ Cap'

(***************************************************************************)
(* Interest.  application/interest_service.py calls the account's          *)
(* calculate_interest and apply_accrued_interest; the Account of src/ has  *)
(* neither an accrued_interest field nor apply_accrued_interest, so the    *)
(* accrual and its capitalisation follow the specification (section 4.5).  *)
(***************************************************************************)
\* FixedRateInterest(rate): the configured rate (a constructor argument; 1
\* makes the interest on the model's whole balances whole).
rate == 1

\* FixedRateInterest.calculate_interest(balance), which account.py lines 80-83
\* call with self.balance.
StrategyInterest(b) == b * rate

\* calculateInterest: adds the interest computed on the balance to the
\* accrued interest; the balance is not touched.
AccountCalculateInterest(acc, bal, a) ==
    [acc EXCEPT ![a] = @ + StrategyInterest(bal[a])]

\* applyAccruedInterest: moves the accrued interest into the balance ...
ApplyAccruedInterestBalance(acc, bal, a) ==
    [bal EXCEPT ![a] = @ + acc[a]]

\* ... and resets the accrued interest to zero.
ApplyAccruedInterestAccrued(acc, a) ==
    [acc EXCEPT ![a] = 0]

\* What a float-returning service method returns.
Amount(x) == <<[amount |-> x]>>

\* InterestService.calculate_interest, lines 43-53.
InterestCalculate(id) ==
    /\ layer = "interest"
    /\ Live
    /\ IF Resolve(id) = None
       THEN /\ last' = Call("InterestService.calculate_interest", id, None, 0,
                            "AccountNotFound", {}, <<>>)
            /\ UNCHANGED accrued
       ELSE /\ accrued' = AccountCalculateInterest(accrued, balance, id)
            /\ last' = Call("InterestService.calculate_interest", id, None, 0,
                            "ok", {id}, Amount(StrategyInterest(balance[id])))
    /\ UNCHANGED <<layer, balance, acctTx, txRepo, accounts, transactions, thr>>
    /\ UNCHANGED <<store, given>>
    /\ Cap'

\* A variant of apply_accrued_interest that, after the account has applied its
\* accrued interest, adds the returned amount to the balance once more.
InterestApplyTwice(id) ==
    /\ layer = "interest"
    /\ Live
    /\ IF Resolve(id) = None
       THEN /\ last' = Call("InterestService.apply_accrued_interest", id, None, 0,
                            "AccountNotFound", {}, <<>>)
            /\ UNCHANGED <<balance, accrued>>
       ELSE /\ balance' = [ApplyAccruedInterestBalance(accrued, balance, id)
                              EXCEPT ![id] = @ + accrued[id]]
            /\ accrued' = ApplyAccruedInterestAccrued(accrued, id)
            /\ last' = Call("InterestService.apply_accrued_interest", id, None, 0,
                            "ok", {id}, Amount(accrued[id]))
    /\ UNCHANGED <<layer, acctTx, txRepo, accounts, transactions, thr>>
    /\ UNCHANGED <<store, given>>
    /\ Cap'

\* InterestService.apply_accrued_interest, lines 69-79.
InterestApply(id) ==
    /\ layer = "interest"
    /\ Live
    /\ IF Resolve(id) = None
       THEN /\ last' = Call("InterestService.apply_accrued_interest", id, None, 0,
                            "AccountNotFound", {}, <<>>)
            /\ UNCHANGED <<balance, accrued>>
       ELSE /\ balance' = ApplyAccruedInterestBalance(accrued, balance, id)
            /\ accrued' = ApplyAccruedInterestAccrued(accrued, id)
            /\ last' = Call("InterestService.apply_accrued_interest", id, None, 0,
                            "ok", {id}, Amount(accrued[id]))
    /\ UNCHANGED <<layer, acctTx, txRepo, accounts, transactions, thr>>
    /\ UNCHANGED <<store, given>>
    /\ Cap'

\* main.py: interest_rate (0.02 a year in the source; 12 makes a month's
\* interest on the model's whole balances whole) and the months of a year.
interest_rate == 12
MonthsPerYear == 12

\* POST /accounts/{account_id}/interest/calculate, lines 169-190.  date_ok
\* tells whether calculationDate is absent or parses as %Y-%m-%d.
MainCalculateInterest(id, date_ok) ==
    /\ layer \in MainWirings
    /\ Live
    /\ IF id \notin DOMAIN accounts
       THEN /\ last' = Call("main.calculate_interest", id, None, 0, "AccountNotFound", {}, <<>>)
            /\ UNCHANGED <<accounts, transactions>>
       ELSE IF ~date_ok
       THEN /\ last' = Call("main.calculate_interest", id, None, 0, "InvalidDate", {}, <<>>)
            /\ UNCHANGED <<accounts, transactions>>
       ELSE LET interest == (accounts[id] * interest_rate) \div MonthsPerYear
                new_balance == accounts[id] + interest
            IN
            /\ accounts' = [accounts EXCEPT ![id] = new_balance]
            /\ transactions' = [transactions EXCEPT
                                   ![id] = Append(@, MainTransaction("interest", interest, new_balance))]
            /\ last' = Call("main.calculate_interest", id, None, 0, "ok", {id}, Amount(interest))
    /\ UNCHANGED <<layer, balance, acctTx, txRepo, accrued, thr>>
    /\ UNCHANGED <<store, given>>
    /\ Cap'

(***************************************************************************)
(* application/statement_service.py over the infrastructure account        *)
(* repository, a transaction repository and InterestService.               *)
(***************************************************************************)
\* The months asked for: one that is none, and one that is.
Months == {0, 7}
MonthsInYear == 1..MonthsPerYear

\* transaction_repository.get_transactions_by_date_range(account_id, start,
\* end): no repository of src/ defines it; by the specification (section 2,
\* Transaction Log) it yields the account's records dated within the period,
\* which every record of a run is.
GetTransactionsByDateRange(repo, id) == SelectSeq(repo, LAMBDA t : t.account_id = id)

\* Lines 93-94: the sum of the amounts of the records whose transaction_type
\* equals one of the given strings.
TotalOf(txs, types) ==
    SumSeqAmounts(SelectSeq(txs, LAMBDA t : t.transaction_type \in types))

\* A variant of lines 93-98 that subtracts the withdrawals as well and adds
\* the interest back.
StartingBalanceInterestAdded(ending_balance, txs, interest_earned) ==
    ending_balance - TotalOf(txs, {"deposit", "transfer_in"})
                   - TotalOf(txs, {"withdrawal", "transfer_out"}) + interest_earned

\* Lines 93-98: starting_balance, from the ending balance, the period's
\* records and the interest earned.
StartingBalance(ending_balance, txs, interest_earned) ==
    LET total_deposits == TotalOf(txs, {"deposit", "transfer_in"})
        total_withdrawals == TotalOf(txs, {"withdrawal", "transfer_out"})
        net_transaction_amount == total_deposits - total_withdrawals
    IN  ending_balance - net_transaction_amount - interest_earned

\* MonthlyStatement(statement_id=..., start_date=..., starting_balance=...):
\* the dataclass of domain/entities/monthly_statement.py has none of these
\* fields, so the constructor call of lines 117-127 raises TypeError.
MonthlyStatementAcceptsServiceKeywords == FALSE

\* The keyword arguments lines 117-127 hand to MonthlyStatement.
StatementArguments(id, starting_balance, ending_balance, txs, interest_earned) ==
    <<[account_id |-> id, starting_balance |-> starting_balance,
       ending_balance |-> ending_balance, transactions |-> txs,
       interest_earned |-> interest_earned]>>

\* A variant of generate_monthly_statement that reads the ending balance
\* before the accrued interest is applied.
GenerateMonthlyStatementReadsFirst(id, month) ==
    /\ layer = "statement"
    /\ Live
    /\ IF month \notin MonthsInYear
       THEN /\ last' = Call("StatementService.generate_monthly_statement", id, None, month,
                            "InvalidMonth", {}, <<>>)
            /\ UNCHANGED <<balance, accrued>>
       ELSE IF Resolve(id) = None
       THEN /\ last' = Call("StatementService.generate_monthly_statement", id, None, month,
                            "AccountNotFound", {}, <<>>)
            /\ UNCHANGED <<balance, accrued>>
       ELSE LET txs == GetTransactionsByDateRange(txRepo, id)
                accrued1 == AccountCalculateInterest(accrued, balance, id)
                interest_earned == accrued1[id]
                ending_balance == balance[id]
                balance2 == ApplyAccruedInterestBalance(accrued1, balance, id)
                accrued2 == ApplyAccruedInterestAccrued(accrued1, id)
                starting_balance == StartingBalance(ending_balance, txs, interest_earned)
            IN
            /\ balance' = balance2
            /\ accrued' = accrued2
            /\ last' = Call("StatementService.generate_monthly_statement", id, None, month,
                            IF MonthlyStatementAcceptsServiceKeywords THEN "ok" ELSE "TypeError",
                            {id},
                            StatementArguments(id, starting_balance, ending_balance, txs,
                                               interest_earned))
    /\ UNCHANGED <<layer, acctTx, txRepo, accounts, transactions, thr, store, given>>
    /\ Cap'

\* StatementService.generate_monthly_statement, lines 54-132.  The period's
\* records are fetched (line 73), interest is accrued up to the period's end
\* (79) and read (83), applied (86), the balance read (89, 97) and the
\* starting balance derived (98); the statement is then built (117), which
\* raises before it is saved (130).
GenerateMonthlyStatement(id, month) ==
    /\ layer = "statement"
    /\ Live
    /\ IF month \notin MonthsInYear
       THEN /\ last' = Call("StatementService.generate_monthly_statement", id, None, month,
                            "InvalidMonth", {}, <<>>)
            /\ UNCHANGED <<balance, accrued>>
       ELSE IF Resolve(id) = None
       THEN /\ last' = Call("StatementService.generate_monthly_statement", id, None, month,
                            "AccountNotFound", {}, <<>>)
            /\ UNCHANGED <<balance, accrued>>
       ELSE LET txs == GetTransactionsByDateRange(txRepo, id)
                accrued1 == AccountCalculateInterest(accrued, balance, id)
                interest_earned == accrued1[id]
                balance2 == ApplyAccruedInterestBalance(accrued1, balance, id)
                accrued2 == ApplyAccruedInterestAccrued(accrued1, id)
                ending_balance == balance2[id]
                starting_balance == StartingBalance(ending_balance, txs, interest_earned)
            IN
            /\ balance' = balance2
            /\ accrued' = accrued2
            /\ last' = Call("StatementService.generate_monthly_statement", id, None, month,
                            IF MonthlyStatementAcceptsServiceKeywords THEN "ok" ELSE "TypeError",
                            {id},
                            StatementArguments(id, starting_balance, ending_balance, txs,
                                               interest_earned))
    /\ UNCHANGED <<layer, acctTx, txRepo, accounts, transactions, thr, store, given>>
    /\ Cap'

(***************************************************************************)
(* Lines 91-98 of statement_service.py on given figures: the ending        *)
(* balance, the period's records and the interest earned are drawn at the  *)
(* start, the starting balance is worked out from them.                    *)
(***************************************************************************)
\* A record of the period: typed as the service's own tests and the transfer
\* services type them ("deposit", "withdrawal", "transfer_in",
\* "transfer_out"), or as application TransactionService does (lines 47-54,
\* 94-101: TransactionType.DEPOSIT, TransactionType.WITHDRAW).
Entry(type, amt) == Transaction("account123", type, amt, None, None)

PeriodRecords ==
    { <<>>,
      <<Entry("deposit", 500)>>,
      <<Entry("deposit", 500), Entry("withdrawal", 200)>>,
      <<Entry("deposit", 500), Entry("withdrawal", 200), Entry("transfer_in", 300)>>,
      <<Entry("deposit", 300), Entry("transfer_out", 200), Entry("deposit", 200)>>,
      <<Entry("DEPOSIT", 500), Entry("WITHDRAW", 200)>> }

Figures ==
    [ending_balance : {1000, 1500}, transactions : PeriodRecords, interest_earned : {0, 5}]

WorkStartingBalance ==
    /\ layer = "figures"
    /\ last.op = "init"
    /\ last' = Call("StatementService.starting_balance", "account123", None, 0, "ok", {},
                    StatementArguments("account123",
                                       StartingBalance(given.ending_balance, given.transactions,
                                                       given.interest_earned),
                                       given.ending_balance, given.transactions,
                                       given.interest_earned))
    /\ UNCHANGED <<layer, balance, acctTx, txRepo, accounts, transactions, accrued, thr,
                   store, given>>

(***************************************************************************)
(* The application services called from two threads.  Nothing in           *)
(* transaction_service.py, fund_transfer_service.py, account.py or the     *)
(* repositories takes a lock, so a thread can be switched out between any  *)
(* two shared reads or writes: `x.balance += a` is a read of x.balance     *)
(* followed by a write.  Each thread makes one call.                       *)
(***************************************************************************)
\* The amounts and account ids the threads call with (valid ones: the
\* rejections of bad input are the same as in a single-threaded call).
ThreadAmounts == {1, 2}

\* The thread's call after a step: its next position, its local and its result.
At(r, pc, tmp, result) == [r EXCEPT !.pc = pc, !.tmp = tmp, !.result = result]

\* TransactionService.deposit, lines 29-38, up to the call of account.deposit,
\* and Account.deposit, lines 33-34.  No critical section is entered.
ThreadDepositCall(t, id, amt) ==
    /\ layer = "threads"
    /\ thr[t].pc = "idle"
    /\ thr' = [thr EXCEPT ![t] =
                 IF amt <= 0 THEN [Idle EXCEPT !.pc = "done", !.op = "deposit", !.src = id,
                                               !.amount = amt, !.result = "InvalidAmount"]
                 ELSE IF Resolve(id) = None
                 THEN [Idle EXCEPT !.pc = "done", !.op = "deposit", !.src = id,
                                   !.amount = amt, !.result = "AccountNotFound"]
                 ELSE [Idle EXCEPT !.pc = "deposit_read", !.op = "deposit", !.src = id,
                                   !.amount = amt]]
    /\ UNCHANGED <<layer, balance, acctTx, txRepo, accounts, transactions, last, accrued>>
    /\ UNCHANGED <<store, given>>
    /\ Cap'

\* account.py line 35, self.balance += amount: the read ...
ThreadDepositRead(t) ==
    /\ layer = "threads"
    /\ thr[t].pc = "deposit_read"
    /\ thr' = [thr EXCEPT ![t] = At(@, "deposit_write", balance[@.src], None)]
    /\ UNCHANGED <<layer, balance, acctTx, txRepo, accounts, transactions, last, accrued>>
    /\ UNCHANGED <<store, given>>
    /\ Cap'

\* ... and the write.
ThreadDepositWrite(t) ==
    /\ layer = "threads"
    /\ thr[t].pc = "deposit_write"
    /\ balance' = [balance EXCEPT ![thr[t].src] = thr[t].tmp + thr[t].amount]
    /\ thr' = [thr EXCEPT ![t] = At(@, "deposit_append", 0, None)]
    /\ UNCHANGED <<layer, acctTx, txRepo, accounts, transactions, last, accrued>>
    /\ UNCHANGED <<store, given>>
    /\ Cap'

\* account.py line 36, then transaction_service.py lines 38-40: deposit
\* returned None, so the service raises "Deposit failed".
ThreadDepositReturn(t) ==
    /\ layer = "threads"
    /\ thr[t].pc = "deposit_append"
    /\ acctTx' = [acctTx EXCEPT ![thr[t].src] =
                     Append(@, Transaction(thr[t].src, "deposit", thr[t].amount, None, None))]
    /\ thr' = [thr EXCEPT ![t] = At(@, "done", 0, "DepositFailed")]
    /\ UNCHANGED <<layer, balance, txRepo, accounts, transactions, last, accrued>>
    /\ UNCHANGED <<store, given>>
    /\ Cap'

\* FundTransferService.transfer_funds, lines 47-57: the checks that read no
\* balance.  No critical section is entered.
ThreadTransferCall(t, s, d, amt) ==
    /\ layer = "threads"
    /\ thr[t].pc = "idle"
    /\ thr' = [thr EXCEPT ![t] =
                 LET r == [Idle EXCEPT !.op = "transfer", !.src = s, !.dst = d, !.amount = amt]
                 IN  IF amt <= 0 THEN At(r, "done", 0, "InvalidAmount")
                     ELSE IF Resolve(s) = None THEN At(r, "done", 0, "SourceNotFound")
                     ELSE IF Resolve(d) = None THEN At(r, "done", 0, "DestinationNotFound")
                     ELSE At(r, "transfer_check", 0, None)]
    /\ UNCHANGED <<layer, balance, acctTx, txRepo, accounts, transactions, last, accrued>>
    /\ UNCHANGED <<store, given>>
    /\ Cap'

\* Lines 60-61.
ThreadTransferCheck(t) ==
    /\ layer = "threads"
    /\ thr[t].pc = "transfer_check"
    /\ thr' = [thr EXCEPT ![t] =
                 IF balance[@.src] < @.amount THEN At(@, "done", 0, "InsufficientFunds")
                 ELSE At(@, "debit_read", 0, None)]
    /\ UNCHANGED <<layer, balance, acctTx, txRepo, accounts, transactions, last, accrued>>
    /\ UNCHANGED <<store, given>>
    /\ Cap'

\* Line 63, source_account.balance -= amount: the read ...
ThreadTransferDebitRead(t) ==
    /\ layer = "threads"
    /\ thr[t].pc = "debit_read"
    /\ thr' = [thr EXCEPT ![t] = At(@, "debit_write", balance[@.src], None)]
    /\ UNCHANGED <<layer, balance, acctTx, txRepo, accounts, transactions, last, accrued>>
    /\ UNCHANGED <<store, given>>
    /\ Cap'

\* ... and the write.
ThreadTransferDebitWrite(t) ==
    /\ layer = "threads"
    /\ thr[t].pc = "debit_write"
    /\ balance' = [balance EXCEPT ![thr[t].src] = thr[t].tmp - thr[t].amount]
    /\ thr' = [thr EXCEPT ![t] = At(@, "credit_read", 0, None)]
    /\ UNCHANGED <<layer, acctTx, txRepo, accounts, transactions, last, accrued>>
    /\ UNCHANGED <<store, given>>
    /\ Cap'

\* Line 64, destination_account.balance += amount: the read ...
ThreadTransferCreditRead(t) ==
    /\ layer = "threads"
    /\ thr[t].pc = "credit_read"
    /\ thr' = [thr EXCEPT ![t] = At(@, "credit_write", balance[@.dst], None)]
    /\ UNCHANGED <<layer, balance, acctTx, txRepo, accounts, transactions, last, accrued>>
    /\ UNCHANGED <<store, given>>
    /\ Cap'

\* ... and the write; then lines 67-68, update_account of both accounts, which
\* re-binds each id to the object it is already bound to.
ThreadTransferCreditWrite(t) ==
    /\ layer = "threads"
    /\ thr[t].pc = "credit_write"
    /\ balance' = [balance EXCEPT ![thr[t].dst] = thr[t].tmp + thr[t].amount]
    /\ thr' = [thr EXCEPT ![t] = At(@, "save_outgoing", 0, None)]
    /\ UNCHANGED <<layer, acctTx, txRepo, accounts, transactions, last, accrued>>
    /\ UNCHANGED <<store, given>>
    /\ Cap'

\* Lines 70-77 and 88.
ThreadTransferSaveOutgoing(t) ==
    /\ layer = "threads"
    /\ thr[t].pc = "save_outgoing"
    /\ txRepo' = Save(txRepo, Transaction(thr[t].src, "transfer_out", thr[t].amount,
                                            thr[t].src, thr[t].dst))
    /\ thr' = [thr EXCEPT ![t] = At(@, "save_incoming", 0, None)]
    /\ UNCHANGED <<layer, balance, acctTx, accounts, transactions, last, accrued>>
    /\ UNCHANGED <<store, given>>
    /\ Cap'

\* Lines 78-85 and 89-91.
ThreadTransferSaveIncoming(t) ==
    /\ layer = "threads"
    /\ thr[t].pc = "save_incoming"
    /\ txRepo' = Save(txRepo, Transaction(thr[t].dst, "transfer_in", thr[t].amount,
                                            thr[t].src, thr[t].dst))
    /\ thr' = [thr EXCEPT ![t] = At(@, "done", 0, "ok")]
    /\ UNCHANGED <<layer, balance, acctTx, accounts, transactions, last, accrued>>
    /\ UNCHANGED <<store, given>>
    /\ Cap'

(***************************************************************************)
(* The specification.                                                      *)
(***************************************************************************)
\* The repositories hold a1 and a2 with their opening balances; main.py
\* starts with empty dictionaries.
Init ==
    /\ layer \in Layers
    /\ balance = [a \in Objects |-> OpeningBalance(a)]
    /\ acctTx = [a \in Objects |-> <<>>]
    /\ txRepo = <<>>
    /\ accounts = EmptyMap
    /\ transactions = EmptyMap
    /\ last = Call("init", None, None, 0, "ok", {}, <<>>)
    /\ accrued = [a \in Objects |-> 0]
    /\ thr = [t \in Threads |-> Idle]
    /\ store = EmptyMap
    /\ given \in IF layer = "figures" THEN Figures ELSE {None}

Next ==
    \/ \E a \in Stored, amt \in Amounts : EntityDeposit(a, amt)
    \/ \E a \in Stored, amt \in Amounts : EntityWithdraw(a, amt)
    \/ \E a \in Stored, b \in Stored, amt \in Amounts : EntityTransferTo(a, b, amt)
    \/ \E id \in Objects, amt \in Amounts : DomainDeposit(id, amt)
    \/ \E id \in Objects, amt \in Amounts : DomainWithdraw(id, amt)
    \/ \E s \in Objects, d \in Objects, amt \in Amounts : RepoTransfer(s, d, amt)
    \/ \E s \in Objects, d \in Objects, amt \in Amounts : TransferServiceTransfer(s, d, amt)
    \/ \E id \in Objects, amt \in WithdrawalRequests : AccountServiceWithdraw(id, amt)
    \/ \E id \in Objects, amt \in Amounts : AccountServiceDeposit(id, amt)
    \/ \E id \in Objects, amt \in Amounts : AppDeposit(id, amt)
    \/ \E id \in Objects, amt \in Amounts : AppWithdraw(id, amt)
    \/ \E s \in Objects, d \in Objects, amt \in Amounts : FundTransfer(s, d, amt)
    \/ \E id \in MainIds, type \in RequestedTypes \ {"checking"}, dep \in InitialDeposits :
          layer = "main" /\ MainCreateAccount(id, type, dep)
    \/ \E id \in MainIds, amt \in Amounts : layer = "main" /\ MainDeposit(id, amt)
    \/ \E id \in MainIds, amt \in Amounts : layer = "main" /\ MainWithdraw(id, amt)
    \/ \E s \in MainIds, d \in MainIds, amt \in Amounts :
          layer = "main" /\ MainTransferFunds(s, d, amt)
    \/ \E s \in Objects, d \in Objects, amt \in Amounts, i \in 1..Len(FundTransferStoreCalls) :
          FundTransferStoreFails(s, d, amt, FundTransferStoreCalls[i])
    \/ \E s \in Objects, d \in Objects, amt \in Amounts, i \in 1..Len(TransferServiceStoreCalls) :
          TransferServiceStoreFails(s, d, amt, TransferServiceStoreCalls[i])
    \/ \E id \in Objects, month \in Months : GenerateMonthlyStatement(id, month)
    \/ WorkStartingBalance
    \/ \E k \in 1..Len(Scenario) : ScenarioStep(k)
    \/ \E type \in RequestedTypes, dep \in CreationDeposits : CreateAccount(type, dep)
    \/ \E i \in 1..Len(Uuids) : GetAccount(Uuids[i])
    \/ \E i \in 1..Len(Uuids), b \in UpdatedBalances : UpdateAccount(Uuids[i], b)
    \/ \E id \in Objects : InterestCalculate(id)
    \/ \E id \in Objects : InterestApply(id)
    \/ \E id \in MainIds, date_ok \in BOOLEAN :
          layer = "main" /\ MainCalculateInterest(id, date_ok)
    \/ \E t \in Threads, id \in Stored, amt \in ThreadAmounts : ThreadDepositCall(t, id, amt)
    \/ \E t \in Threads : ThreadDepositRead(t)
    \/ \E t \in Threads : ThreadDepositWrite(t)
    \/ \E t \in Threads : ThreadDepositReturn(t)
    \/ \E t \in Threads, s \in Stored, d \in Stored, amt \in ThreadAmounts : ThreadTransferCall(t, s, d, amt)
    \/ \E t \in Threads : ThreadTransferCheck(t)
    \/ \E t \in Threads : ThreadTransferDebitRead(t)
    \/ \E t \in Threads : ThreadTransferDebitWrite(t)
    \/ \E t \in Threads : ThreadTransferCreditRead(t)
    \/ \E t \in Threads : ThreadTransferCreditWrite(t)
    \/ \E t \in Threads : ThreadTransferSaveOutgoing(t)
    \/ \E t \in Threads : ThreadTransferSaveIncoming(t)

Spec == Init /\ [][Next]_vars

(***************************************************************************)
(* Vocabulary of the properties.                                           *)
(***************************************************************************)
\* Everything a ledger call can change.
Ledger == <<balance, acctTx, txRepo, accounts, transactions>>

\* Whether the running wiring holds an account with this id.
Exists(id) == IF layer \in MainWirings THEN id \in DOMAIN accounts ELSE id \in Stored

\* The balance of account id, read from the given objects / dictionary.
BalanceIn(bal, acc, id) == IF layer \in MainWirings THEN acc[id] ELSE bal[id]

\* The records filed under account id: the account's own list where the wiring
\* keeps no transaction repository, the repository's records of that account
\* (find_by_account_id, get_transactions_for_account) where it does.
FiledIn(atx, repo, trs, id) ==
    IF layer \in MainWirings THEN trs[id]
    ELSE IF layer \in {"entity", "limits"} THEN atx[id]
    ELSE SelectSeq(repo, LAMBDA t : t.account_id = id)

\* The records seq `after` holds beyond those of `before`.
Added(before, after) == SubSeq(after, Len(before) + 1, Len(after))

DepositOps == {"Account.deposit", "AccountService.deposit", "domain.deposit",
               "app.deposit", "main.deposit"}
WithdrawOps == {"Account.withdraw", "AccountService.withdraw", "domain.withdraw",
                "app.withdraw", "main.withdraw"}
TransferOps == {"Account.transfer_to", "AccountRepository.transfer",
                "TransferService.transfer", "app.transfer_funds", "main.transfer_funds"}

\* The errors the validation of a transfer raises.
ValidationErrors == {"InvalidAmount", "AccountNotFound", "SourceNotFound",
                     "DestinationNotFound", "InsufficientFunds"}

IsDepositRecord(t, id, amt) ==
    /\ t.account_id = id
    /\ t.transaction_type \in {"DEPOSIT", "deposit"}
    /\ t.amount = amt

IsTransferOut(t, s, d, amt) ==
    /\ t.account_id = s
    /\ t.transaction_type \in {"TRANSFER_OUT", "transfer_out"}
    /\ t.amount = amt
    /\ t.destination_account_id = d

IsTransferIn(t, s, d, amt) ==
    /\ t.account_id = d
    /\ t.transaction_type \in {"TRANSFER_IN", "transfer_in"}
    /\ t.amount = amt
    /\ t.source_account_id = s

(***************************************************************************)
(* The claims.                                                             *)
(***************************************************************************)
\* C1: for every existing account and every amount > 0, a deposit through
\* TransactionService.deposit or Account.deposit leaves the balance equal to
\* the previous balance plus the amount and appends exactly one DEPOSIT record
\* of that amount for that account, and the service returns that record.
C1_DepositContract ==
    [][LET c == last' IN
       (c.op \in {"app.deposit", "Account.deposit"} /\ c.amount > 0 /\ c.src \in Stored) =>
          LET new == Added(FiledIn(acctTx, txRepo, transactions, c.src),
                           FiledIn(acctTx', txRepo', transactions', c.src))
          IN  /\ balance'[c.src] = balance[c.src] + c.amount
              /\ Len(new) = 1
              /\ IsDepositRecord(new[1], c.src, c.amount)
              /\ c.op = "app.deposit" => (c.result = "ok" /\ c.returned = new)
      ]_vars

\* C2: every withdrawal whose amount exceeds the account's current balance is
\* rejected with an insufficient-funds error and leaves the balance and the
\* records exactly as they were.
C2_OverdrawRejected ==
    [][LET c == last' IN
       (/\ c.op \in WithdrawOps
        /\ Exists(c.src)
        /\ c.amount > BalanceIn(balance, accounts, c.src)) =>
          (c.result = "InsufficientFunds" /\ Ledger' = Ledger)
      ]_vars

\* C3: a successful transfer leaves the sum of the source and destination
\* balances, and so the total of all balances, as it was: only deposits,
\* withdrawals and interest change the total.
C3_Conservation ==
    [][LET c == last' IN
       (c.op \in TransferOps /\ c.result = "ok") =>
          /\ BalanceIn(balance', accounts', c.src)
               + (IF c.dst = c.src THEN 0 ELSE BalanceIn(balance', accounts', c.dst))
             = BalanceIn(balance, accounts, c.src)
               + (IF c.dst = c.src THEN 0 ELSE BalanceIn(balance, accounts, c.dst))
          /\ TotalBalance' = TotalBalance
      ]_vars

\* C3 witness: a transfer between two distinct accounts has succeeded and
\* moved money.
C3_Witness ==
    /\ last.op = "app.transfer_funds"
    /\ last.result = "ok"
    /\ last.src # last.dst
    /\ last.amount = 2
    /\ balance[last.dst] >= 2

\* C4: a successful transfer of A between two distinct accounts takes exactly A
\* from the source, adds exactly A to the destination and files exactly two
\* records: a TRANSFER_OUT under the source naming the destination and a
\* TRANSFER_IN under the destination naming the source, both of amount A
\* (Account.transfer_to and the transfer services alike).
C4_TransferEffect ==
    [][LET c == last' IN
       (/\ c.op \in TransferOps \ {"main.transfer_funds"}
        /\ c.result = "ok"
        /\ c.src # c.dst) =>
          LET out == Added(FiledIn(acctTx, txRepo, transactions, c.src),
                           FiledIn(acctTx', txRepo', transactions', c.src))
              in == Added(FiledIn(acctTx, txRepo, transactions, c.dst),
                          FiledIn(acctTx', txRepo', transactions', c.dst))
          IN  /\ balance'[c.src] = balance[c.src] - c.amount
              /\ balance'[c.dst] = balance[c.dst] + c.amount
              /\ Len(out) = 1 /\ IsTransferOut(out[1], c.src, c.dst, c.amount)
              /\ Len(in) = 1 /\ IsTransferIn(in[1], c.src, c.dst, c.amount)
      ]_vars

\* C5: the opening balances being non-negative, every balance is non-negative
\* after any sequence of deposit, withdrawal and transfer calls.
C5_NonNegativeBalances ==
    /\ \A a \in Objects : balance[a] >= 0
    /\ \A m \in DOMAIN accounts : accounts[m] >= 0

\* C6: whenever TransactionService.deposit raises, the balance, the account
\* store and the transaction log are exactly as before the call.
C6_FailedDepositNoEffect ==
    [][LET c == last' IN
       (c.op = "app.deposit" /\ c.result # "ok") =>
          (Ledger' = Ledger /\ c.updated = {})
      ]_vars

\* C7: a rejected withdrawal (AccountService.withdraw, TransactionService.withdraw)
\* leaves the balance, the transaction log and the limit usage untouched and
\* does not write the account to the store.
C7_RejectedWithdrawNoEffect ==
    [][LET c == last' IN
       (c.op \in {"AccountService.withdraw", "app.withdraw"} /\ c.result # "ok") =>
          (Ledger' = Ledger /\ c.updated = {})
      ]_vars

\* C8: whenever a transfer is rejected by validation (amount <= 0, an
\* unresolved account, source balance < amount), no balance has changed, no
\* account was written to the store and no record was appended.
C8_RejectedTransferNoEffect ==
    [][LET c == last' IN
       (c.op \in TransferOps /\ c.result \in ValidationErrors) =>
          (Ledger' = Ledger /\ c.updated = {} /\ c.returned = <<>>)
      ]_vars

\* C8 witness: FundTransferService.transfer_funds has rejected a transfer of
\* more than the source holds.
C8_Witness ==
    /\ last.op = "app.transfer_funds"
    /\ last.result = "InsufficientFunds"
    /\ last.amount > balance[last.src]
    /\ last.src # last.dst

\* C9: every deposit, withdrawal and transfer entry point (application
\* services, Account methods, main.py endpoints) rejects an amount <= 0 with an
\* invalid-amount error, whatever the account ids, and changes nothing.
C9_NonPositiveAmountRejected ==
    [][LET c == last' IN
       (/\ c.op \in {"app.deposit", "app.withdraw", "app.transfer_funds",
                     "Account.deposit", "Account.withdraw", "Account.transfer_to",
                     "main.deposit", "main.withdraw", "main.transfer_funds"}
        /\ c.amount <= 0) =>
          (c.result = "InvalidAmount" /\ Ledger' = Ledger)
      ]_vars

\* The sum of the withdrawals the account has made (all calls of a run fall on
\* one day): the daily usage U.
WithdrawnToday(atx, a) ==
    SumSeqAmounts(SelectSeq(atx[a], LAMBDA t : t.transaction_type \in {"withdrawal", "withdraw", "WITHDRAW"}))

\* C10: with daily limit L and usage U, AccountService.withdraw rejects an
\* otherwise acceptable withdrawal of A exactly when U + A > L, a rejection
\* leaves U as it was, and so the day's withdrawals never sum to more than L.
C10_DailyLimit ==
    [][LET c == last' IN
       (/\ c.op = "AccountService.withdraw"
        /\ c.src \in Stored
        /\ c.amount > 0
        /\ c.amount <= balance[c.src]) =>
          /\ (c.result # "ok") <=> (WithdrawnToday(acctTx, c.src) + c.amount > daily_limit)
          /\ (c.result # "ok") => WithdrawnToday(acctTx', c.src) = WithdrawnToday(acctTx, c.src)
          /\ WithdrawnToday(acctTx', c.src) <= daily_limit
      ]_vars

\* The number of withdrawals the account's own records show.
WithdrawalCount(atx, a) ==
    Len(SelectSeq(atx[a], LAMBDA t : t.transaction_type \in {"withdrawal", "withdraw", "WITHDRAW"}))

\* C11: a withdrawal of A that passes every check (existing account,
\* 0 < A <= balance) succeeds: the balance drops by exactly A, the day's
\* withdrawal total grows by A and the withdrawal count by one, exactly one
\* WITHDRAW record of amount A is filed, and TransactionService.withdraw has
\* written the account to the store when it returns.
C11_WithdrawEffect ==
    [][LET c == last' IN
       (/\ c.op \in {"app.withdraw", "Account.withdraw"}
        /\ c.src \in Stored
        /\ c.amount > 0
        /\ c.amount <= balance[c.src]) =>
          LET new == Added(FiledIn(acctTx, txRepo, transactions, c.src),
                           FiledIn(acctTx', txRepo', transactions', c.src))
          IN  /\ c.result = "ok"
              /\ balance'[c.src] = balance[c.src] - c.amount
              /\ WithdrawnToday(acctTx', c.src) = WithdrawnToday(acctTx, c.src) + c.amount
              /\ WithdrawalCount(acctTx', c.src) = WithdrawalCount(acctTx, c.src) + 1
              /\ Len(new) = 1
              /\ new[1].account_id = c.src
              /\ new[1].transaction_type \in {"WITHDRAW", "withdrawal", "withdraw"}
              /\ new[1].amount = c.amount
              /\ c.op = "app.withdraw" => (c.updated = {c.src} /\ c.returned = new)
      ]_vars

\* C12: FundTransferService.transfer_funds with source id = destination id and
\* 0 < A <= balance is accepted, leaves the balance as it was and appends one
\* TRANSFER_OUT and then one TRANSFER_IN record for that account.
C12_SameAccountTransfer ==
    [][LET c == last' IN
       (/\ c.op = "app.transfer_funds"
        /\ c.src = c.dst
        /\ c.src \in Stored
        /\ c.amount > 0
        /\ c.amount <= balance[c.src]) =>
          LET new == Added(FiledIn(acctTx, txRepo, transactions, c.src),
                           FiledIn(acctTx', txRepo', transactions', c.src))
          IN  /\ c.result = "ok"
              /\ balance' = balance
              /\ Len(new) = 2
              /\ IsTransferOut(new[1], c.src, c.src, c.amount)
              /\ IsTransferIn(new[2], c.src, c.src, c.amount)
              /\ Len(txRepo') = Len(txRepo) + 2
      ]_vars

\* C12 witness: a transfer of 2 from a1 to a1 has been accepted.
C12_Witness ==
    /\ last.op = "app.transfer_funds"
    /\ last.result = "ok"
    /\ last.src = "a1"
    /\ last.dst = "a1"
    /\ last.amount = 2
    /\ Len(txRepo) >= 2

\* The error the precedence of the contract gives a transfer (None: accepted).
\* A balance is read only from an account that was resolved, except by
\* TransferService.transfer, which is handed the Account objects themselves.
ContractTransferError(bal, s, d, amt) ==
    IF amt <= 0 THEN "InvalidAmount"
    ELSE IF s \notin Stored THEN "SourceNotFound"
    ELSE IF d \notin Stored THEN "DestinationNotFound"
    ELSE IF bal[s] < amt THEN "InsufficientFunds"
    ELSE "ok"

\* C13: a transfer reports invalid amount first, then source not found, then
\* destination not found, then insufficient funds: with both accounts
\* unresolved the error names the source, and an unresolved account is
\* reported even when the amount exceeds the source's balance.
C13_ErrorPrecedence ==
    [][LET c == last' IN
       (c.op \in {"app.transfer_funds", "TransferService.transfer"}) =>
          c.result = ContractTransferError(balance, c.src, c.dst, c.amount)
      ]_vars

\* C14: when a store call made after the balance mutation of a transfer
\* raises, the caller gets the transfer-failed error: not one of the validation
\* errors, not the store's own error, and never a normal return.
C14_TransferFailedSurfaced ==
    [][LET c == last' IN
       (c.op \in {"failing.transfer_funds", "failing.TransferService.transfer"}) =>
          (c.result = "TransferFailed" /\ c.result \notin ValidationErrors \cup {"ok"})
      ]_vars

\* tracker.limits["daily_transfer_limit"]: the daily transfer limit configured
\* for every account (the model's amounts are 1 and 2).
daily_transfer_limit == 1

\* The sum of the transfers the account has sent (all calls of a run fall on
\* one day): the daily transfer usage U, read off the transaction log.
TransferredToday(repo, a) ==
    SumSeqAmounts(SelectSeq(repo, LAMBDA t : /\ t.account_id = a
                                             /\ t.transaction_type \in {"transfer_out", "TRANSFER_OUT"}))

\* C15: a transfer of A that passes validation, from a source with daily
\* transfer usage U and daily transfer limit L, is rejected before any mutation
\* when U + A > L (whatever the destination's usage), and an accepted transfer
\* adds A to the source's usage.
C15_TransferLimit ==
    [][LET c == last' IN
       (/\ c.op = "app.transfer_funds"
        /\ FundTransferCheck(balance, c.src, c.dst, c.amount) = "ok") =>
          /\ (TransferredToday(txRepo, c.src) + c.amount > daily_transfer_limit)
                => (c.result # "ok" /\ Ledger' = Ledger)
          /\ (c.result = "ok")
                => TransferredToday(txRepo', c.src) = TransferredToday(txRepo, c.src) + c.amount
      ]_vars

C20_CalculateLeavesBalance ==
    [][LET c == last' IN
       (/\ c.op \in {"InterestService.calculate_interest", "main.calculate_interest"}
        /\ c.result = "ok") =>
          Ledger' = Ledger
      ]_vars

\* The balances the Account objects are constructed with, as a function.
Opening == [a \in Objects |-> OpeningBalance(a)]

\* The balances after the call r of a thread, run alone on balances bal.
SerialOutcome(bal, r) ==
    IF r.op = "deposit"
    THEN AccountDeposit([balance |-> bal, acctTx |-> acctTx], r.src, r.amount).balance
    ELSE IF r.op = "transfer" /\ FundTransferCheck(bal, r.src, r.dst, r.amount) = "ok"
    THEN FundTransferBalances(bal, r.src, r.dst, r.amount)
    ELSE bal

\* C16: no lost update.  When the two concurrent calls have returned, the
\* balances are those one of the two serial orders of the calls gives (for two
\* deposits of a and b into one account: opening + a + b).
C16_NoLostUpdate ==
    (layer = "threads" /\ \A t \in Threads : thr[t].pc = "done") =>
        \/ balance = SerialOutcome(SerialOutcome(Opening, thr["t1"]), thr["t2"])
        \/ balance = SerialOutcome(SerialOutcome(Opening, thr["t2"]), thr["t1"])

\* C17: a transfer appears atomic.  While one transfer between two distinct
\* accounts is the only call made so far, whoever reads the accounts and the
\* transaction log sees either the state before the transfer or the state
\* after it: never the source debited and the destination not yet credited,
\* never one transfer record without the other.
C17_TransferAtomic ==
    \A t \in Threads :
        (/\ layer = "threads"
         /\ thr[t].op = "transfer"
         /\ thr[t].src # thr[t].dst
         /\ \A u \in Threads \ {t} : thr[u].pc = "idle") =>
            \/ balance = Opening /\ txRepo = <<>>
            \/ /\ balance = FundTransferBalances(Opening, thr[t].src, thr[t].dst, thr[t].amount)
               /\ Len(txRepo) = 2

\* The positions of transfer_funds at which the thread reads or writes the
\* balances of its two accounts.
BalanceSection == {"transfer_check", "debit_read", "debit_write", "credit_read", "credit_write"}

\* C18: a transfer is inside the critical sections of both its accounts
\* (entered in ascending order of account id, whichever is the source) for as
\* long as it reads and writes their balances, so that opposite transfers
\* neither interleave nor deadlock.
C18_OrderedCriticalSections ==
    \A t \in Threads :
        (layer = "threads" /\ thr[t].op = "transfer" /\ thr[t].pc \in BalanceSection) =>
            thr[t].held = {thr[t].src, thr[t].dst}

\* The account-creation entry points, and the accounts a wiring holds.
CreateOps == {"main.create_account", "AccountCreationService.create_account"}

\* What the contract accepts: a type that is CHECKING or SAVINGS, a deposit
\* that is not negative, and at least 100 for a savings account.
ContractAcceptsCreation(type, dep) ==
    /\ Upper(type) \in {"CHECKING", "SAVINGS"}
    /\ dep >= 0
    /\ Upper(type) = "SAVINGS" => dep >= 100

\* The ids under which the running wiring holds an account.
Held(acc, st) == IF layer \in MainWirings THEN DOMAIN acc ELSE DOMAIN st

\* Whether the account held under k is ACTIVE with balance b.
ActiveWithBalance(acc, st, k, b) ==
    IF layer \in MainWirings THEN FALSE
    ELSE st[k].status = "ACTIVE" /\ st[k].balance = b

\* C21: every account-creation entry point (main.py included) stores nothing
\* and raises when the type is not CHECKING or SAVINGS, when the initial
\* deposit is negative, or when a SAVINGS account's deposit is below 100; in
\* every other case it stores exactly one ACTIVE account whose balance is the
\* initial deposit.
C21_CreationValidated ==
    [][last'.op \in CreateOps =>
         IF ContractAcceptsCreation(last'.src, last'.amount)
         THEN /\ last'.result = "ok"
              /\ \E k \in Held(accounts', store') \ Held(accounts, store) :
                    /\ Held(accounts', store') = Held(accounts, store) \cup {k}
                    /\ ActiveWithBalance(accounts', store', k, last'.amount)
         ELSE /\ last'.result # "ok"
              /\ accounts' = accounts
              /\ transactions' = transactions
              /\ store' = store]_vars


\* The kinds of the records of a list, in the order they were appended,
\* whatever the spelling a wiring gives them.
Kind(t) ==
    CASE t.type \in {"DEPOSIT", "deposit"} -> "DEPOSIT"
      [] t.type \in {"WITHDRAW", "withdraw", "withdrawal"} -> "WITHDRAW"
      [] t.type \in {"TRANSFER_OUT", "transfer_out", "transfer-out"} -> "TRANSFER_OUT"
      [] t.type \in {"TRANSFER_IN", "transfer_in", "transfer-in"} -> "TRANSFER_IN"
      [] OTHER -> t.type

Kinds(txs) == [i \in 1..Len(txs) |-> Kind(txs[i])]

\* C22: after creating a SAVINGS account with initial deposit 100,
\* withdrawing 30 from it and transferring 20 from it to a second account
\* with balance 0, the first account's balance is 50, the second's is 20, the
\* first account's transaction list is exactly (WITHDRAW, TRANSFER_OUT) and
\* the second's exactly (TRANSFER_IN).
C22_EndToEnd ==
    (layer = "scenario" /\ Made(Len(Scenario))) =>
        /\ accounts["m1"] = 50
        /\ accounts["m2"] = 20
        /\ Kinds(transactions["m1"]) = <<"WITHDRAW", "TRANSFER_OUT">>
        /\ Kinds(transactions["m2"]) = <<"TRANSFER_IN">>

\* The calls that work out a statement's figures, and the figures of the one
\* just made.
StatementOps == {"StatementService.generate_monthly_statement",
                 "StatementService.starting_balance"}

Worked(call) == call.op \in StatementOps /\ call.returned # <<>>

\* The totals the starting balance is derived from.
Deposits(txs) == TotalOf(txs, {"deposit", "transfer_in"})
Withdrawals(txs) == TotalOf(txs, {"withdrawal", "transfer_out"})

\* The month of the worked example: deposits 500, withdrawals 200, interest
\* earned 5, ending balance 1500.
IsExample(a) ==
    /\ Deposits(a.transactions) = 500
    /\ Withdrawals(a.transactions) = 200
    /\ a.interest_earned = 5
    /\ a.ending_balance = 1500

\* C23 as stated: the starting balance is the ending balance minus the net
\* transaction flow (deposits minus withdrawals) minus the interest earned,
\* and for deposits 500, withdrawals 200, interest 5 and ending balance 1500
\* it is 805.
C23_StartingBalanceAsStated ==
    [][Worked(last') =>
         LET a == last'.returned[1] IN
         /\ a.starting_balance =
               a.ending_balance - (Deposits(a.transactions) - Withdrawals(a.transactions))
                                - a.interest_earned
         /\ IsExample(a) => a.starting_balance = 805]_vars

\* C23, amended: the starting balance is the ending balance minus the net
\* transaction flow (deposits minus withdrawals) minus the interest earned;
\* for deposits 500, withdrawals 200, interest 5 and ending balance 1500 that
\* is 1195.
C23_StartingBalance ==
    [][Worked(last') =>
         LET a == last'.returned[1] IN
         /\ a.starting_balance =
               a.ending_balance - (Deposits(a.transactions) - Withdrawals(a.transactions))
                                - a.interest_earned
         /\ IsExample(a) => a.starting_balance = 1195]_vars

\* The worked example has been computed.
C23_Witness ==
    /\ last.op = "StatementService.starting_balance"
    /\ IsExample(last.returned[1])
    /\ last.returned[1].starting_balance = 1195

LogKind(t) ==
    CASE t.transaction_type \in {"DEPOSIT", "deposit"} -> "DEPOSIT"
      [] t.transaction_type \in {"WITHDRAW", "withdraw", "withdrawal"} -> "WITHDRAW"
      [] t.transaction_type \in {"TRANSFER_OUT", "transfer_out"} -> "TRANSFER_OUT"
      [] t.transaction_type \in {"TRANSFER_IN", "transfer_in"} -> "TRANSFER_IN"
      [] OTHER -> t.transaction_type

KindTotal(txs, kinds) == SumSeqAmounts(SelectSeq(txs, LAMBDA t : LogKind(t) \in kinds))

\* Whether nothing but recorded transfers has touched the accounts so far.
OnlyRecordedTransfers ==
    /\ \A a \in Objects : acctTx[a] = <<>> /\ accrued[a] = 0
    /\ SumOver(balance, Objects) = SumOver([a \in Objects |-> OpeningBalance(a)], Objects)

MinimumBalanceAfter(bal, a, amt) ==
    IF account_type[a] = "SAVINGS" /\ bal[a] - amt < SavingsMinimum
    THEN "MinimumBalance" ELSE "ok"

DailyCheck(txs, amt) ==
    IF SumSeqAmounts(WithdrawTyped(txs)) + amt > daily_limit
    THEN "DailyLimitExceeded" ELSE "ok"

MonthlyCheck(txs, amt) ==
    IF SumSeqAmounts(WithdrawTyped(txs)) + amt > monthly_limit
    THEN "MonthlyLimitExceeded" ELSE "ok"

ChecksInOrder(h, a, amt) ==
    << ValidateWithdrawal(h.balance, a, amt),
       MinimumBalanceAfter(h.balance, a, amt),
       DailyCheck(h.acctTx[a], amt),
       MonthlyCheck(h.acctTx[a], amt) >>

FailingChecks(h, a, amt) == SelectSeq(ChecksInOrder(h, a, amt), LAMBDA r : r # "ok")

\* C25: AccountService.withdraw evaluates (a) sufficient funds, (b) minimum
\* balance after withdrawal, (c) daily limit, (d) monthly limit in this
\* order: a request that fails several of them is rejected with the error of
\* the earliest one it fails.
C25_CheckOrder ==
    [][LET c == last' IN
       (/\ c.op = "AccountService.withdraw"
        /\ c.src \in Stored
        /\ Len(FailingChecks(Heap, c.src, c.amount)) >= 2) =>
          c.result = FailingChecks(Heap, c.src, c.amount)[1]
      ]_vars

\* C26: with the savings minimum M of AccountService, a withdrawal of A that
\* the other checks accept is rejected exactly when balance - A < M: after a
\* successful withdrawal the balance is still >= M, and a withdrawal that
\* keeps the balance at or above M is not rejected for the minimum.
C26_MinimumBalance ==
    [][LET c == last' IN
       (/\ c.op = "AccountService.withdraw"
        /\ c.src \in Stored
        /\ account_type[c.src] = "SAVINGS"
        /\ c.amount > 0) =>
          /\ c.result = "ok" => balance'[c.src] >= SavingsMinimum
          /\ (c.amount <= balance[c.src] /\ balance[c.src] - c.amount < SavingsMinimum)
                => c.result = "MinimumBalance"
          /\ balance[c.src] - c.amount >= SavingsMinimum => c.result # "MinimumBalance"
      ]_vars

\* C27: read-after-write on the account store.  After
\* AccountCreationService.create_account returns id X, get_account_by_id(X)
\* on the same repository returns the created account; after
\* update_account(account) of an account the repository holds,
\* get_account_by_id of that account's id returns the updated state.
C27_ReadAfterWrite ==
    [][LET c == last' IN
       /\ (c.op = "AccountCreationService.create_account" /\ c.result = "ok") =>
             LET X == c.returned[1].account_id IN
             /\ GetAccountById(store', X) # <<>>
             /\ GetAccountById(store', X)[1].account_id = X
             /\ GetAccountById(store', X)[1].balance = c.amount
       /\ (c.op = "AccountRepository.update_account" /\ c.src \in DOMAIN store) =>
             GetAccountById(store', c.src) = c.returned
      ]_vars

\* C28: the transaction log is append-only.  Every step leaves each saved
\* record where it was, with the account id, type and amount it was saved
\* with (a record's place in the list stands for its id), and
\* find_by_account_id returns an account's records in the order they were
\* appended: what it returned before, followed by the account's records among
\* those appended since.
C28_AppendOnly ==
    [][/\ Len(txRepo') >= Len(txRepo)
       /\ \A i \in 1..Len(txRepo) : txRepo'[i] = txRepo[i]
       /\ \A id \in Objects :
             FindByAccountId(txRepo', id) =
                FindByAccountId(txRepo, id) \o FindByAccountId(Added(txRepo, txRepo'), id)
      ]_vars

\* Records were saved onto a log that already held some, two of them for one
\* account.
C28_Witness ==
    /\ Len(txRepo) >= 3
    /\ \E id \in Objects : Len(FindByAccountId(txRepo, id)) >= 2
    /\ \E i, j \in 1..Len(txRepo) : txRepo[i] # txRepo[j]

\* The signed sum of the records main.py keeps for an account: deposit,
\* transfer-in and interest amounts count up, withdraw and transfer-out
\* amounts count down.
RECURSIVE SignedSum(_)
SignedSum(txs) ==
    IF txs = <<>> THEN 0
    ELSE LET t == Head(txs) IN
         (IF t.type \in {"deposit", "transfer-in", "interest"} THEN t.amount
          ELSE IF t.type \in {"withdraw", "transfer-out"} THEN 0 - t.amount
          ELSE 0)
         + SignedSum(Tail(txs))

\* C29: ledger consistency in main.py.  In every reachable state each
\* account's balance equals the signed sum of its recorded transactions (the
\* initial deposit being recorded as a deposit), and the balance_after of its
\* most recent record equals its current balance.
C29_LedgerConsistent ==
    layer \in MainWirings =>
        \A id \in DOMAIN accounts :
            /\ accounts[id] = SignedSum(transactions[id])
            /\ transactions[id] # <<>>
            /\ transactions[id][Len(transactions[id])].balance_after = accounts[id]

\* Two accounts with their initial deposits recorded, after a transfer of a
\* positive amount from one to the other.
C29_Witness ==
    /\ layer = "main"
    /\ \E id \in DOMAIN accounts, other \in DOMAIN accounts :
          /\ other # id
          /\ Len(transactions[id]) >= 2
          /\ transactions[id][Len(transactions[id])].type = "transfer-out"
          /\ transactions[other][Len(transactions[other])].type = "transfer-in"
          /\ transactions[other][Len(transactions[other])].amount > 0

====
